---------------------------- MODULE Spec2Model ----------------------------
(***************************************************************************)
(* Model of main.py of apple-event-parser: parse_m3u8 (classification of  *)
(* the media entries, selection of the video renditions), the download    *)
(* stage and merge_as_mkv (synthesis of the mkvmerge command line).       *)
(*                                                                         *)
(* Strings.  A Python string is a sequence of pieces.  Text the program    *)
(* looks into (group_id, the selection line, the codec list, decimal       *)
(* numbers) is a sequence of single characters; a literal of a format      *)
(* string ("video_", ".ts", "--language 0:") is one piece.  Concatenation  *)
(* and str.format are \o.  Two file names of the model are equal exactly   *)
(* when the Python strings are: the prefix piece fixes the shape of what   *)
(* follows it.                                                             *)
(*                                                                         *)
(* Optional values.  None is the empty sequence, a present value x is the  *)
(* one-element sequence <<x>>.                                             *)
(***************************************************************************)
EXTENDS Integers, Sequences, FiniteSets, TLC

VARIABLES
    stdin_url,            \* what the operator types at "Enter the m3u8 URI: "
    stdin_indexes,        \* what the operator types at "Enter indexes: "
    remote,               \* the manifest m3u8.load would return: [media, playlists]
    pc,                   \* position of the script
    event_url,            \* __main__: event_url (optional)
    playlist,             \* parse_m3u8: playlist (optional)
    media_index,          \* parse_m3u8: position of the media loop
    audio_tracks,         \* parse_m3u8: audio_tracks
    subtitles,            \* parse_m3u8: subtitles
    videos,               \* parse_m3u8: videos
    video_streams_info,   \* parse_m3u8: rows of the quality matrix
    video_stream_indexes, \* parse_m3u8: the selection line (optional)
    seq,                  \* parse_m3u8: position of the selection loop
    parsed,               \* __main__: parsed (optional)
    downloaded,           \* ffmpeg runs done: sequence of [uri, file]
    cmd_args,             \* merge_as_mkv: cmd_args (empty until built)
    err                   \* the uncaught exception: [type, msg] with type "None" when there is none

vars == <<stdin_url, stdin_indexes, remote, pc, event_url, playlist, media_index,
          audio_tracks, subtitles, videos, video_streams_info,
          video_stream_indexes, seq, parsed, downloaded, cmd_args, err>>

-----------------------------------------------------------------------------
(* Bounds of the model *)

MaxMedia == 2
MaxIndexChars == 3
MaxPlaylists == 3

-----------------------------------------------------------------------------
(* Python values and string operations *)

None == <<>>
Some(x) == <<x>>

\* mutant of OrNone: the `or None` is left out
OrNone_Kept(s) == Some(s)

\* `x or None` on a string: the empty string is falsy
OrNone(s) == IF s = <<>> THEN None ELSE Some(s)

\* `sub in s`
Contains(s, sub) ==
    \E i \in 0..(Len(s) - Len(sub)) : SubSeq(s, i + 1, i + Len(sub)) = sub

\* s.startswith(p)
StartsWith(s, p) == Len(p) <= Len(s) /\ SubSeq(s, 1, Len(p)) = p

\* s.split(sep) for a one-character separator
RECURSIVE Split(_, _)
Split(s, sep) ==
    IF \A i \in 1..Len(s) : s[i] # sep
    THEN <<s>>
    ELSE LET i == CHOOSE k \in 1..Len(s) :
                      s[k] = sep /\ \A j \in 1..(k - 1) : s[j] # sep
         IN <<SubSeq(s, 1, i - 1)>> \o Split(SubSeq(s, i + 1, Len(s)), sep)

DigitChars == <<"0", "1", "2", "3", "4", "5", "6", "7", "8", "9">>
IsDigit(c) == \E d \in 1..10 : DigitChars[d] = c
DigitVal(c) == (CHOOSE d \in 1..10 : DigitChars[d] = c) - 1

\* str(n) for n >= 0
RECURSIVE Str(_)
Str(n) ==
    IF n < 10 THEN <<DigitChars[n + 1]>>
    ELSE Str(n \div 10) \o <<DigitChars[(n % 10) + 1]>>

RECURSIVE DigitsValue(_)
DigitsValue(ds) ==
    IF ds = <<>> THEN 0
    ELSE 10 * DigitsValue(SubSeq(ds, 1, Len(ds) - 1)) + DigitVal(ds[Len(ds)])

\* int(tok): an optional sign and at least one decimal digit, else ValueError.
\* (A leading "+" cannot reach int(): "+" is the separator of the line.)
PyInt(tok) ==
    LET neg == tok # <<>> /\ tok[1] = "-"
        ds  == IF neg THEN Tail(tok) ELSE tok
    IN IF ds # <<>> /\ \A i \in 1..Len(ds) : IsDigit(ds[i])
       THEN [ok |-> TRUE, val |-> IF neg THEN 0 - DigitsValue(ds) ELSE DigitsValue(ds)]
       ELSE [ok |-> FALSE, val |-> 0]

\* list[i]: 0..n-1 from the front, -n..-1 from the back, else IndexError.
\* The result is the 1-based position in the sequence, 0 for IndexError.
PyListPos(n, i) ==
    IF 0 <= i /\ i < n THEN i + 1
    ELSE IF 0 - n <= i /\ i < 0 THEN n + i + 1
    ELSE 0


-----------------------------------------------------------------------------
(* Text constants of the program *)

STR_aac == <<"a", "a", "c">>
STR_eac3 == <<"e", "a", "c", "3">>
STR_audio_stereo == <<"a", "u", "d", "i", "o", "-", "s", "t", "e", "r", "e", "o">>
STR_describes_video == <<"describes-video">>

-----------------------------------------------------------------------------
(* The inputs: what the operator types and what the manifest holds *)

GID_stereo_aac == <<"a", "u", "d", "i", "o", "-", "s", "t", "e", "r", "e", "o", "-", "a", "a", "c">>
GID_atmos_eac3 == <<"a", "u", "d", "i", "o", "-", "a", "t", "m", "o", "s", "-", "e", "a", "c", "3">>
GID_aac_eac3 == <<"a", "u", "d", "i", "o", "-", "a", "a", "c", "-", "e", "a", "c", "3">>
GID_stereo_1 == <<"a", "u", "d", "i", "o", "-", "s", "t", "e", "r", "e", "o", "-", "1">>
GID_ac3 == <<"a", "u", "d", "i", "o", "-", "a", "c", "3">>
GID_subs == <<"s", "u", "b", "s">>

GroupIDs == {GID_stereo_aac, GID_atmos_eac3, GID_aac_eac3, GID_stereo_1, GID_ac3}
Languages == {"en", "fr"}
Characteristics == {None, Some(<<"public.accessibility.", "describes-video">>)}

\* One EXT-X-MEDIA entry as m3u8 presents it.  name and uri follow the language:
\* the program only copies them.
MediaItem(type, language, group_id, characteristics) ==
    [type |-> type,
     uri |-> <<"https://cdn/", type, "/", language, ".m3u8">>,
     name |-> <<"Name-", language>>,
     language |-> language,
     group_id |-> group_id,
     characteristics |-> characteristics]

MediaItems ==
    {MediaItem("AUDIO", l, g, c) : l \in Languages, g \in GroupIDs, c \in Characteristics}
    \cup {MediaItem("SUBTITLES", l, GID_subs, None) : l \in Languages}
    \cup {MediaItem("CLOSED-CAPTIONS", "en", GID_subs, None)}

\* One EXT-X-STREAM-INF entry: the fields of playlist.playlists[i] the program
\* reads into a track.
Rendition(i) ==
    [uri |-> <<"https://cdn/video/">> \o Str(i) \o <<".m3u8">>,
     stream_info |->
        [codecs |-> IF i % 2 = 0
                    THEN <<"h", "v", "c", "1", ".", "2", ",", "e", "c", "-", "3">>
                    ELSE <<"a", "v", "c", "1">>,
         video_range |-> IF i % 2 = 0 THEN <<"PQ">> ELSE <<"SDR">>]]

Renditions(n) == [i \in 1..n |-> Rendition(i - 1)]

SeqUpTo(S, n) == UNION {[1..k -> S] : k \in 0..n}

IndexChars == {"0", "1", "-", "+", "x"}

BaseMedia ==
    {<<>>,
     <<MediaItem("AUDIO", "en", GID_stereo_aac, None),
       MediaItem("SUBTITLES", "en", GID_subs, None)>>}
BaseIndexes == {<<>>, <<"0">>, <<"1", "+", "0">>, <<"0", "+", "0">>}
URL == <<"https://events-delivery.apple.com/m3u8/vod_index.m3u8">>

\* The runs explored: every manifest with the base selections over two
\* renditions, every selection line with the base manifests over every number of
\* renditions, and the run without a URI.
Inputs ==
    {[url |-> URL, media |-> m, n |-> 2, indexes |-> s] :
        m \in SeqUpTo(MediaItems, MaxMedia), s \in BaseIndexes}
    \cup {[url |-> URL, media |-> m, n |-> n, indexes |-> s] :
        m \in BaseMedia, n \in 0..MaxPlaylists, s \in SeqUpTo(IndexChars, MaxIndexChars)}
    \cup {[url |-> <<>>, media |-> <<>>, n |-> 0, indexes |-> <<>>]}

NoError == [type |-> "None", msg |-> <<>>]

Init ==
    \E inp \in Inputs :
        /\ stdin_url = inp.url
        /\ stdin_indexes = inp.indexes
        /\ remote = [media |-> inp.media, playlists |-> Renditions(inp.n)]
        /\ pc = "main"
        /\ event_url = None
        /\ playlist = None
        /\ media_index = 0
        /\ audio_tracks = <<>>
        /\ subtitles = <<>>
        /\ videos = <<>>
        /\ video_streams_info = <<>>
        /\ video_stream_indexes = None
        /\ seq = 0
        /\ parsed = None
        /\ downloaded = <<>>
        /\ cmd_args = <<>>
        /\ err = NoError

-----------------------------------------------------------------------------
(* parse_m3u8: the track classifier *)

\* mutant of FileExtension: the second marker is matched as "ac3"
FileExtension_Ac3(group_id) ==
    IF Contains(group_id, STR_aac) THEN Some("aac")
    ELSE IF Contains(group_id, <<"a", "c", "3">>) THEN Some("eac3")
    ELSE None

\* lines 46-51: the extension, None when the group is of neither kind
FileExtension(group_id) ==
    IF Contains(group_id, STR_aac) THEN Some("aac")
    ELSE IF Contains(group_id, STR_eac3) THEN Some("eac3")
    ELSE None

\* mutant of AudioDefault: the characteristics are not looked at
AudioDefault_AnyCharacteristics(item) ==
    /\ item.language = "en"
    /\ StartsWith(item.group_id, STR_audio_stereo)

\* lines 59-63
AudioDefault(item) ==
    /\ item.language = "en"
    /\ StartsWith(item.group_id, STR_audio_stereo)
    /\ item.characteristics = None

\* line 41
SubtitleDefault(item) == item.language = "en"

\* line 42
SubtitleFileName(index) == <<"subtitle_">> \o Str(index) \o <<".", "vtt">>

\* line 64
AudioFileName(index, ext) == <<"audio_">> \o Str(index) \o <<".", ext>>

\* lines 37-43
SubtitleRecord(index, item) ==
    [uri |-> item.uri,
     name |-> item.name,
     language |-> item.language,
     default |-> SubtitleDefault(item),
     file_name |-> SubtitleFileName(index)]

\* lines 53-65
AudioRecord(index, item) ==
    [uri |-> item.uri,
     name |-> item.name,
     language |-> item.language,
     group_id |-> item.group_id,
     characteristics |-> item.characteristics,
     default |-> AudioDefault(item),
     file_name |-> AudioFileName(index, FileExtension(item.group_id)[1])]

\* line 244
ReadUrl ==
    /\ pc = "main"
    /\ event_url' = OrNone(stdin_url)
    /\ pc' = "parse"
    /\ UNCHANGED <<stdin_url, stdin_indexes, remote, playlist, media_index,
                   audio_tracks, subtitles, videos, video_streams_info,
                   video_stream_indexes, seq, parsed, downloaded, cmd_args, err>>

\* lines 24-25
RaiseNoUri ==
    /\ pc = "parse"
    /\ event_url = None
    /\ err' = [type |-> "Exception", msg |-> <<"A URI must be provided!">>]
    /\ pc' = "raised"
    /\ UNCHANGED <<stdin_url, stdin_indexes, remote, event_url, playlist, media_index,
                   audio_tracks, subtitles, videos, video_streams_info,
                   video_stream_indexes, seq, parsed, downloaded, cmd_args>>

\* lines 27-32
LoadPlaylist ==
    /\ pc = "parse"
    /\ event_url # None
    /\ playlist' = Some(remote)
    /\ audio_tracks' = <<>>
    /\ subtitles' = <<>>
    /\ videos' = <<>>
    /\ media_index' = 0
    /\ pc' = "media"
    /\ UNCHANGED <<stdin_url, stdin_indexes, remote, event_url, video_streams_info,
                   video_stream_indexes, seq, parsed, downloaded, cmd_args, err>>

MediaAt(index) == playlist[1].media[index + 1]
InMediaLoop == pc = "media" /\ media_index < Len(playlist[1].media)

\* lines 36-43
ClassifySubtitle ==
    /\ InMediaLoop
    /\ MediaAt(media_index).type = "SUBTITLES"
    /\ subtitles' = Append(subtitles, SubtitleRecord(media_index, MediaAt(media_index)))
    /\ media_index' = media_index + 1
    /\ UNCHANGED <<stdin_url, stdin_indexes, remote, pc, event_url, playlist,
                   audio_tracks, videos, video_streams_info,
                   video_stream_indexes, seq, parsed, downloaded, cmd_args, err>>

\* lines 44-49, 53-65
ClassifyAudio ==
    /\ InMediaLoop
    /\ MediaAt(media_index).type = "AUDIO"
    /\ FileExtension(MediaAt(media_index).group_id) # None
    /\ audio_tracks' = Append(audio_tracks, AudioRecord(media_index, MediaAt(media_index)))
    /\ media_index' = media_index + 1
    /\ UNCHANGED <<stdin_url, stdin_indexes, remote, pc, event_url, playlist,
                   subtitles, videos, video_streams_info,
                   video_stream_indexes, seq, parsed, downloaded, cmd_args, err>>

\* lines 44-51
RaiseUnsupportedAudio ==
    /\ InMediaLoop
    /\ MediaAt(media_index).type = "AUDIO"
    /\ FileExtension(MediaAt(media_index).group_id) = None
    /\ err' = [type |-> "Exception",
               msg |-> <<"Unsupported audio type: ">> \o MediaAt(media_index).group_id]
    /\ pc' = "raised"
    /\ UNCHANGED <<stdin_url, stdin_indexes, remote, event_url, playlist, media_index,
                   audio_tracks, subtitles, videos, video_streams_info,
                   video_stream_indexes, seq, parsed, downloaded, cmd_args>>

\* lines 35-36, 44: an entry of another type is passed over
SkipMedia ==
    /\ InMediaLoop
    /\ MediaAt(media_index).type \notin {"SUBTITLES", "AUDIO"}
    /\ media_index' = media_index + 1
    /\ UNCHANGED <<stdin_url, stdin_indexes, remote, pc, event_url, playlist,
                   audio_tracks, subtitles, videos, video_streams_info,
                   video_stream_indexes, seq, parsed, downloaded, cmd_args, err>>

-----------------------------------------------------------------------------
(* parse_m3u8: the quality matrix and the stream selector *)

\* lines 68-86: one row per rendition (the fields the model carries)
StreamsInfo(playlists) ==
    [i \in 1..Len(playlists) |->
        [index |-> i - 1,
         codecs |-> playlists[i].stream_info.codecs,
         video_range |-> playlists[i].stream_info.video_range]]

\* lines 67-108
PromptIndexes ==
    /\ pc = "media"
    /\ media_index = Len(playlist[1].media)
    /\ video_streams_info' = StreamsInfo(playlist[1].playlists)
    /\ video_stream_indexes' = OrNone(stdin_indexes)
    /\ seq' = 0
    /\ pc' = "videos"
    /\ UNCHANGED <<stdin_url, stdin_indexes, remote, event_url, playlist, media_index,
                   audio_tracks, subtitles, videos, parsed, downloaded, cmd_args, err>>

\* line 111: None has no split
RaiseNoIndexes ==
    /\ pc = "videos"
    /\ video_stream_indexes = None
    /\ err' = [type |-> "AttributeError",
               msg |-> <<"'NoneType' object has no attribute 'split'">>]
    /\ pc' = "raised"
    /\ UNCHANGED <<stdin_url, stdin_indexes, remote, event_url, playlist, media_index,
                   audio_tracks, subtitles, videos, video_streams_info,
                   video_stream_indexes, seq, parsed, downloaded, cmd_args>>

\* line 111: video_stream_indexes.split('+')
Tokens == Split(video_stream_indexes[1], "+")
InVideoLoop == pc = "videos" /\ video_stream_indexes # None /\ seq < Len(Tokens)
NumPlaylists == Len(playlist[1].playlists)

\* mutant of VideoDefault: the position is counted from one
VideoDefault_OneBased(s) == s = 1

\* line 119: seq is 0 (the small integers of enumerate are shared objects, so
\* `is` agrees with ==)
VideoDefault(s) == s = 0

\* mutant of VideoFileName: the index is left out of the name
VideoFileName_NoIndex(video_index) == <<"video", ".", "ts">>

\* line 120
VideoFileName(video_index) == <<"video_">> \o video_index \o <<".", "ts">>

\* lines 115-118
VideoCodec(stream_info) ==
    stream_info.video_range \o <<" (">> \o Split(stream_info.codecs, ",")[1] \o <<")">>

\* lines 113-121
VideoRecord(s, video_index, current_stream) ==
    [uri |-> current_stream.uri,
     codec |-> VideoCodec(current_stream.stream_info),
     default |-> VideoDefault(s),
     file_name |-> VideoFileName(video_index)]

\* line 112: int(video_index) of something that is no integer
RaiseValueError ==
    /\ InVideoLoop
    /\ ~PyInt(Tokens[seq + 1]).ok
    /\ err' = [type |-> "ValueError",
               msg |-> <<"invalid literal for int() with base 10: '">>
                       \o Tokens[seq + 1] \o <<"'">>]
    /\ pc' = "raised"
    /\ UNCHANGED <<stdin_url, stdin_indexes, remote, event_url, playlist, media_index,
                   audio_tracks, subtitles, videos, video_streams_info,
                   video_stream_indexes, seq, parsed, downloaded, cmd_args>>

\* mutant of RaiseIndexError: the IndexError is caught and the tracks collected
\* so far are returned
RaiseIndexError_Swallowed ==
    /\ InVideoLoop
    /\ PyInt(Tokens[seq + 1]).ok
    /\ PyListPos(NumPlaylists, PyInt(Tokens[seq + 1]).val) = 0
    /\ parsed' = Some([audio_tracks |-> audio_tracks,
                       subtitles |-> subtitles,
                       videos |-> videos])
    /\ pc' = "download"
    /\ UNCHANGED <<stdin_url, stdin_indexes, remote, event_url, playlist, media_index,
                   audio_tracks, subtitles, videos, video_streams_info,
                   video_stream_indexes, seq, downloaded, cmd_args, err>>

\* line 112: playlist.playlists[...] of an index the list does not have
RaiseIndexError ==
    /\ InVideoLoop
    /\ PyInt(Tokens[seq + 1]).ok
    /\ PyListPos(NumPlaylists, PyInt(Tokens[seq + 1]).val) = 0
    /\ err' = [type |-> "IndexError", msg |-> <<"list index out of range">>]
    /\ pc' = "raised"
    /\ UNCHANGED <<stdin_url, stdin_indexes, remote, event_url, playlist, media_index,
                   audio_tracks, subtitles, videos, video_streams_info,
                   video_stream_indexes, seq, parsed, downloaded, cmd_args>>

\* lines 111-121
SelectVideo ==
    /\ InVideoLoop
    /\ PyInt(Tokens[seq + 1]).ok
    /\ PyListPos(NumPlaylists, PyInt(Tokens[seq + 1]).val) # 0
    /\ videos' = Append(videos,
            VideoRecord(seq, Tokens[seq + 1],
                playlist[1].playlists[PyListPos(NumPlaylists, PyInt(Tokens[seq + 1]).val)]))
    /\ seq' = seq + 1
    /\ UNCHANGED <<stdin_url, stdin_indexes, remote, pc, event_url, playlist,
                   media_index, audio_tracks, subtitles, video_streams_info,
                   video_stream_indexes, parsed, downloaded, cmd_args, err>>

\* lines 123-127 and 247
ReturnParsed ==
    /\ pc = "videos"
    /\ video_stream_indexes # None
    /\ seq = Len(Tokens)
    /\ parsed' = Some([audio_tracks |-> audio_tracks,
                       subtitles |-> subtitles,
                       videos |-> videos])
    /\ pc' = "download"
    /\ UNCHANGED <<stdin_url, stdin_indexes, remote, event_url, playlist, media_index,
                   audio_tracks, subtitles, videos, video_streams_info,
                   video_stream_indexes, seq, downloaded, cmd_args, err>>

-----------------------------------------------------------------------------
(* download_with_ffmpeg *)

\* os.path.join("downloads", file_name)
DownloadPath(file_name) == <<"downloads/">> \o file_name

\* lines 142-154, 157-169, 172-184: one ffmpeg run per track
FfmpegRuns(tracks) ==
    [i \in 1..Len(tracks) |->
        [uri |-> tracks[i].uri, file |-> DownloadPath(tracks[i].file_name)]]

\* lines 130-184 and 249
DownloadWithFfmpeg ==
    /\ pc = "download"
    /\ downloaded' = FfmpegRuns(parsed[1].audio_tracks)
                     \o FfmpegRuns(parsed[1].subtitles)
                     \o FfmpegRuns(parsed[1].videos)
    /\ pc' = "merge"
    /\ UNCHANGED <<stdin_url, stdin_indexes, remote, event_url, playlist, media_index,
                   audio_tracks, subtitles, videos, video_streams_info,
                   video_stream_indexes, seq, parsed, cmd_args, err>>

-----------------------------------------------------------------------------
(* merge_as_mkv *)

ARG_mkvmerge == <<"mkvmerge">>
ARG_output == <<"--output output.mkv">>
ARG_not_default == <<"--default-track-flag 0:no">>
ARG_visual_impaired == <<"--visual-impaired-flag 0:yes">>
ARG_dolby_atmos == <<" (Dolby Atmos)">>

LanguageArg(language) == <<"--language 0:", language>>
TrackNameArg(name) == <<"--track-name '0:">> \o name \o <<"'">>

\* mutant of VideoArgs: the "not default" flag is never added
VideoArgs_NoFlag(video) ==
    <<LanguageArg("en"), TrackNameArg(video.codec), DownloadPath(video.file_name)>>

\* lines 205-210
VideoArgs(video) ==
    <<LanguageArg("en"), TrackNameArg(video.codec)>>
    \o (IF video.default = FALSE THEN <<ARG_not_default>> ELSE <<>>)
    \o <<DownloadPath(video.file_name)>>

\* lines 216-217
AudioTrackName(audio_track) ==
    audio_track.name
    \o (IF Contains(audio_track.group_id, STR_eac3) THEN ARG_dolby_atmos ELSE <<>>)

\* lines 214-225
AudioArgs(audio_track) ==
    <<LanguageArg(audio_track.language), TrackNameArg(AudioTrackName(audio_track))>>
    \o (IF audio_track.default = FALSE THEN <<ARG_not_default>> ELSE <<>>)
    \o (IF /\ audio_track.characteristics # None
           /\ Contains(audio_track.characteristics[1], STR_describes_video)
        THEN <<ARG_visual_impaired>> ELSE <<>>)
    \o <<DownloadPath(audio_track.file_name)>>

\* lines 229-234
SubtitleArgs(subtitle) ==
    <<LanguageArg(subtitle.language), TrackNameArg(subtitle.name)>>
    \o (IF subtitle.default = FALSE THEN <<ARG_not_default>> ELSE <<>>)
    \o <<DownloadPath(subtitle.file_name)>>

\* lines 204-210: the appends of the video loop, track after track
RECURSIVE AllVideoArgs(_)
AllVideoArgs(tracks) ==
    IF tracks = <<>> THEN <<>>
    ELSE VideoArgs(Head(tracks)) \o AllVideoArgs(Tail(tracks))

\* lines 213-225: the appends of the audio loop
RECURSIVE AllAudioArgs(_)
AllAudioArgs(tracks) ==
    IF tracks = <<>> THEN <<>>
    ELSE AudioArgs(Head(tracks)) \o AllAudioArgs(Tail(tracks))

\* lines 228-234: the appends of the subtitle loop
RECURSIVE AllSubtitleArgs(_)
AllSubtitleArgs(tracks) ==
    IF tracks = <<>> THEN <<>>
    ELSE SubtitleArgs(Head(tracks)) \o AllSubtitleArgs(Tail(tracks))

\* mutant of CmdArgs: the audio loop comes before the video loop
CmdArgs_AudioFirst(audio, subs, vids) ==
    <<ARG_mkvmerge, ARG_output>>
    \o AllAudioArgs(audio)
    \o AllVideoArgs(vids)
    \o AllSubtitleArgs(subs)

\* lines 198-234
CmdArgs(audio, subs, vids) ==
    <<ARG_mkvmerge, ARG_output>>
    \o AllVideoArgs(vids)
    \o AllAudioArgs(audio)
    \o AllSubtitleArgs(subs)

\* lines 187-237 and 251
MergeAsMkv ==
    /\ pc = "merge"
    /\ cmd_args' = CmdArgs(parsed[1].audio_tracks, parsed[1].subtitles, parsed[1].videos)
    /\ pc' = "done"
    /\ UNCHANGED <<stdin_url, stdin_indexes, remote, event_url, playlist, media_index,
                   audio_tracks, subtitles, videos, video_streams_info,
                   video_stream_indexes, seq, parsed, downloaded, err>>

-----------------------------------------------------------------------------

Next ==
    \/ ReadUrl
    \/ RaiseNoUri
    \/ LoadPlaylist
    \/ ClassifySubtitle
    \/ ClassifyAudio
    \/ RaiseUnsupportedAudio
    \/ SkipMedia
    \/ PromptIndexes
    \/ RaiseNoIndexes
    \/ RaiseValueError
    \/ RaiseIndexError
    \/ SelectVideo
    \/ ReturnParsed
    \/ DownloadWithFfmpeg
    \/ MergeAsMkv

Spec == Init /\ [][Next]_vars

-----------------------------------------------------------------------------
(* Vocabulary of the properties *)

Returned == parsed # None
Downstream == pc \in {"merge", "done"} \/ downloaded # <<>> \/ cmd_args # <<>>

\* the operator has been asked for the indexes
Prompted ==
    \/ pc \in {"videos", "download", "merge", "done"}
    \/ pc = "raised" /\ err.type # "Exception"

\* the media loop has been left, normally or by an exception
Classified == playlist # None /\ (pc # "media" \/ media_index = Len(remote.media))

IsAudio(item) == item.type = "AUDIO"
IsSubtitle(item) == item.type = "SUBTITLES"
HasMarker(group_id) ==
    \/ Contains(group_id, <<"a", "a", "c">>)
    \/ Contains(group_id, <<"e", "a", "c", "3">>)
UnsupportedAt(i) == IsAudio(remote.media[i]) /\ ~HasMarker(remote.media[i].group_id)
UnsupportedMessage(i) == <<"Unsupported audio type: ">> \o remote.media[i].group_id

\* the tokens of the line the operator typed, and what they denote
TypedTokens == Split(stdin_indexes, "+")
DenotesInteger(tok) == PyInt(tok).ok
InRange(tok) ==
    /\ DenotesInteger(tok)
    /\ 0 <= PyInt(tok).val
    /\ PyInt(tok).val < Len(remote.playlists)

Distinct(xs) == \A i, j \in 1..Len(xs) : i # j => xs[i] # xs[j]
FileNames(tracks) == [i \in 1..Len(tracks) |-> tracks[i].file_name]
Paths(tracks) == [i \in 1..Len(tracks) |-> <<"downloads/">> \o tracks[i].file_name]

\* the blocks of a command line: a block ends with its file path
IsPath(arg) == arg[1] = "downloads/"
IsLanguage(arg) == arg[1] = "--language 0:"
RECURSIVE BlocksFrom(_, _)
BlocksFrom(args, open) ==
    IF args = <<>> THEN (IF open = <<>> THEN <<>> ELSE <<open>>)
    ELSE IF IsPath(Head(args))
         THEN <<Append(open, Head(args))>> \o BlocksFrom(Tail(args), <<>>)
         ELSE BlocksFrom(Tail(args), Append(open, Head(args)))
Blocks == BlocksFrom(SubSeq(cmd_args, 3, Len(cmd_args)), <<>>)
IsIn(arg, block) == \E k \in 1..Len(block) : block[k] = arg
PathArgs == SelectSeq(cmd_args, IsPath)
MuxTracks == parsed[1].videos \o parsed[1].audio_tracks \o parsed[1].subtitles

-----------------------------------------------------------------------------
(* C1 *)

\* C1 as stated: after every successful parse_m3u8 the file names of all
\* tracks, audio, subtitle and video together, are pairwise distinct, also when
\* an index is selected more than once.
C1_FileNamesDistinct ==
    Returned =>
        Distinct(FileNames(parsed[1].audio_tracks) \o FileNames(parsed[1].subtitles)
                 \o FileNames(parsed[1].videos))

\* C1 amended: after every successful parse_m3u8 two tracks have the same file
\* name only when both are video tracks selected by the same token; with
\* pairwise distinct tokens all file names are pairwise distinct.
C1_FileNamesDistinctUnlessReselected ==
    Returned =>
        LET a == Len(parsed[1].audio_tracks) + Len(parsed[1].subtitles)
            names == FileNames(parsed[1].audio_tracks) \o FileNames(parsed[1].subtitles)
                     \o FileNames(parsed[1].videos)
        IN /\ \A i, j \in 1..Len(names) :
                (i # j /\ names[i] = names[j]) =>
                    /\ i > a
                    /\ j > a
                    /\ TypedTokens[i - a] = TypedTokens[j - a]
           /\ Distinct(TypedTokens) => Distinct(names)

C1_Witness ==
    /\ Returned
    /\ parsed[1].audio_tracks # <<>>
    /\ parsed[1].subtitles # <<>>
    /\ Len(parsed[1].videos) >= 2
    /\ Distinct(TypedTokens)

-----------------------------------------------------------------------------
(* C2 *)

\* C2, for the selections whose tokens all denote integers: when a token
\* denotes an integer outside 0..n-1, negative integers included, the selection
\* fails with an index-out-of-range error, nothing is returned, and no such
\* token is resolved to a rendition.
C2_OutOfRangeIndexFails ==
    (/\ Prompted
     /\ stdin_indexes # <<>>
     /\ \A k \in 1..Len(TypedTokens) : DenotesInteger(TypedTokens[k])
     /\ \E k \in 1..Len(TypedTokens) : ~InRange(TypedTokens[k])) =>
        /\ ~Returned
        /\ pc = "raised" => err.type = "IndexError"
        /\ \A i \in 1..Len(videos) : InRange(TypedTokens[i])

-----------------------------------------------------------------------------
(* C3 *)

\* C3 as stated: on an empty selection line the run fails and, when it does,
\* no track record, audio, subtitle or video, has been constructed.
C3_AbortsBeforeAnyTrack ==
    (Prompted /\ stdin_indexes = <<>> /\ pc = "raised") =>
        /\ err.type = "AttributeError"
        /\ audio_tracks = <<>>
        /\ subtitles = <<>>
        /\ videos = <<>>

\* C3 amended: on an empty selection line the run fails, on the split of None,
\* before any video track is constructed and before anything is returned,
\* downloaded or put into a command; the audio and subtitle records of the
\* manifest, one per entry, have been constructed by then.
C3_AbortsBeforeAnyVideoTrack ==
    (Prompted /\ stdin_indexes = <<>>) =>
        /\ pc \in {"videos", "raised"}
        /\ pc = "raised" => err.type = "AttributeError"
        /\ pc = "videos" => (ENABLED RaiseNoIndexes /\ ~ENABLED SelectVideo
                                /\ ~ENABLED ReturnParsed)
        /\ videos = <<>>
        /\ ~Returned
        /\ ~Downstream
        /\ Len(audio_tracks) = Len(SelectSeq(remote.media, IsAudio))
        /\ Len(subtitles) = Len(SelectSeq(remote.media, IsSubtitle))

C3_Witness ==
    /\ stdin_indexes = <<>>
    /\ pc = "raised"
    /\ err.type = "AttributeError"
    /\ audio_tracks # <<>>
    /\ subtitles # <<>>

-----------------------------------------------------------------------------
(* C4 *)

-----------------------------------------------------------------------------
(* C5 *)

\* C5: after a successful selection of k >= 1 tokens there are k video tracks in
\* token order; the i-th is named video_<i-th token>.ts, refers to the rendition
\* the token indexes, and is the default exactly when it is the first; so exactly
\* one is, also when an index is selected twice.
C5_SelectionOrder ==
    Returned =>
        LET vs == parsed[1].videos
        IN /\ Len(vs) = Len(TypedTokens)
           /\ Len(vs) >= 1
           /\ \A i \in 1..Len(vs) :
                /\ vs[i].file_name = <<"video_">> \o TypedTokens[i] \o <<".", "ts">>
                /\ vs[i].default = (i = 1)
                /\ InRange(TypedTokens[i]) =>
                      vs[i].uri = remote.playlists[PyInt(TypedTokens[i]).val + 1].uri
           /\ Cardinality({i \in 1..Len(vs) : vs[i].default}) = 1

C5_Witness ==
    /\ Returned
    /\ Len(parsed[1].videos) = 2
    /\ TypedTokens[1] = TypedTokens[2]
    /\ InRange(TypedTokens[1])

-----------------------------------------------------------------------------
(* C6 *)

\* C6 as stated: for every AUDIO entry whose group has neither marker the
\* classification fails with the error that names that group, whatever precedes
\* or follows the entry.
C6_EveryUnsupportedGroupNamed ==
    Classified =>
        \A i \in 1..Len(remote.media) :
            UnsupportedAt(i) =>
                /\ pc = "raised"
                /\ err = [type |-> "Exception", msg |-> UnsupportedMessage(i)]

\* C6 amended: when some AUDIO entry has a group with neither marker, the
\* classification fails at the first such entry with the error that names its
\* group, and nothing is returned or used; when no AUDIO entry has such a group
\* the classification does not fail and every AUDIO entry yields a track.
C6_FirstUnsupportedGroupNamed ==
    /\ Classified =>
        IF \E i \in 1..Len(remote.media) : UnsupportedAt(i)
        THEN LET f == CHOOSE i \in 1..Len(remote.media) :
                        UnsupportedAt(i) /\ \A j \in 1..(i - 1) : ~UnsupportedAt(j)
             IN /\ pc = "raised"
                /\ err = [type |-> "Exception", msg |-> UnsupportedMessage(f)]
                /\ media_index = f - 1
                /\ ~Returned
                /\ ~Downstream
        ELSE /\ err.type # "Exception"
             /\ Len(audio_tracks) = Len(SelectSeq(remote.media, IsAudio))
    /\ (playlist # None /\ pc = "media") =>
        \A i \in 1..media_index : ~UnsupportedAt(i)

C6_Witness ==
    /\ pc = "raised"
    /\ Len(remote.media) = 2
    /\ UnsupportedAt(1)
    /\ UnsupportedAt(2)
    /\ remote.media[1].group_id # remote.media[2].group_id
    /\ err.msg = UnsupportedMessage(1)

-----------------------------------------------------------------------------
(* C7 *)

\* C7: the k-th audio track, made from the k-th AUDIO entry of the manifest, is
\* the default if and only if the entry's language is "en", its group starts
\* with "audio-stereo" and it has no characteristics.
C7_AudioDefault ==
    LET entries == SelectSeq(remote.media, IsAudio)
    IN \A k \in 1..Len(audio_tracks) :
          audio_tracks[k].default =
              (/\ entries[k].language = "en"
               /\ Len(entries[k].group_id) >= 12
               /\ SubSeq(entries[k].group_id, 1, 12) =
                     <<"a", "u", "d", "i", "o", "-", "s", "t", "e", "r", "e", "o">>
               /\ entries[k].characteristics = None)

\* two defaults in one manifest
C7_Witness ==
    /\ pc = "done"
    /\ Len(audio_tracks) = 2
    /\ audio_tracks[1].default
    /\ audio_tracks[2].default

-----------------------------------------------------------------------------
(* C8 *)

\* C8: the command starts with the tool and the output option; its file paths
\* are those of the video tracks, then of the audio tracks, then of the
\* subtitles, each group in the order of its list, one block per track.
C8_MuxOrder ==
    pc = "done" =>
        /\ Len(cmd_args) >= 2
        /\ cmd_args[1] = <<"mkvmerge">>
        /\ cmd_args[2] = <<"--output output.mkv">>
        /\ PathArgs = Paths(parsed[1].videos) \o Paths(parsed[1].audio_tracks)
                      \o Paths(parsed[1].subtitles)
        /\ Len(Blocks) = Len(MuxTracks)
        /\ \A b \in 1..Len(Blocks) :
              /\ IsLanguage(Blocks[b][1])
              /\ Len(SelectSeq(Blocks[b], IsLanguage)) = 1
              /\ Len(SelectSeq(Blocks[b], IsPath)) = 1

C8_Witness ==
    /\ pc = "done"
    /\ Len(parsed[1].videos) >= 2
    /\ parsed[1].audio_tracks # <<>>
    /\ parsed[1].subtitles # <<>>

-----------------------------------------------------------------------------
(* C9 *)

\* C9 as stated: the track name of an audio track carries the surround suffix
\* if and only if the track's file extension is eac3.
C9_SuffixIffEac3 ==
    pc = "done" =>
        \A k \in 1..Len(parsed[1].audio_tracks) :
            LET track == parsed[1].audio_tracks[k]
                block == Blocks[Len(parsed[1].videos) + k]
            IN Contains(block[2], <<" (Dolby Atmos)">>)
                  = (track.file_name[Len(track.file_name)] = "eac3")

-----------------------------------------------------------------------------
(* C10 *)

\* C10: the block of a track holds the "not default" flag if and only if the
\* track is not the default, and holds it before the file path; so exactly one
\* video block, the first, has no flag.
C10_NotDefaultFlag ==
    pc = "done" =>
        /\ Len(Blocks) = Len(MuxTracks)
        /\ \A b \in 1..Len(Blocks) :
              /\ IsIn(<<"--default-track-flag 0:no">>, Blocks[b]) = ~MuxTracks[b].default
              /\ \A k \in 1..Len(Blocks[b]) :
                    Blocks[b][k] = <<"--default-track-flag 0:no">> =>
                        \E p \in (k + 1)..Len(Blocks[b]) : IsPath(Blocks[b][p])
        /\ {b \in 1..Len(parsed[1].videos) :
                ~IsIn(<<"--default-track-flag 0:no">>, Blocks[b])} = {1}

C10_Witness ==
    /\ pc = "done"
    /\ Len(parsed[1].videos) >= 2
    /\ \E k \in 1..Len(parsed[1].audio_tracks) : ~parsed[1].audio_tracks[k].default
    /\ \E k \in 1..Len(parsed[1].audio_tracks) : parsed[1].audio_tracks[k].default

=============================================================================
